---- MODULE Spec2Model ----
(***************************************************************************)
(* Model of the mule-build packaging pipeline: packageProject with its     *)
(* descriptor and config-tree backup/restore, the strip / enforce          *)
(* transforms and the entry points that call it.                           *)
(***************************************************************************)
EXTENDS Integers, Sequences, FiniteSets, TLC

\* ------------------------------------------------------------------ bounds
\* packageProject invocations per behaviour
MaxRuns == 1
\* tree mutations between snapshot and restore in the round-trip specification
MaxMutations == 2
\* fragments a text of the text specification is put together from
MaxFrags == 3
\* the longest content, in items, given to removeSecurePropertiesConfig
MaxItems == 4
\* loadConfig calls per behaviour of the configuration specification
MaxCalls == 3
\* tool calls one MCP server process gets per behaviour
MaxToolCalls == 3

VARIABLES
  pc,            \* position inside packageProject ("idle" before the first call, "done" after a call ended)
  opts,          \* PackageOptions of the running invocation
  pom,           \* <cwd>/pom.xml
  pomBak,        \* <cwd>/pom.xml.bak
  muleDirExists, \* whether <cwd>/src/main/mule exists
  tree,          \* files below <cwd>/src/main/mule, by relative path
  bakExists,     \* whether <cwd>/.mule-build-backup exists
  bak,           \* files below <cwd>/.mule-build-backup, by relative path
  target,        \* <cwd>/target: the built artifact, the renamed copies, the manifest
  loc,           \* locals of packageProject
  res,           \* how the last call ended
  h,             \* what the running invocation has done so far (observation only)
  runs,          \* invocations started so far
  rt,            \* round-trip specification: phase and pre-snapshot tree
  aux            \* state of the specifications of single operations (inputs, outputs, positions of concurrent calls)

vars == <<pc, opts, pom, pomBak, muleDirExists, tree, bakExists, bak, target, loc, res, h, runs, rt, aux>>

\* --------------------------------------------------------------- contents
\* File content is a sequence of items: plain text, a brace-form reference
\* ${...}, a call-form reference Mule::p('...'), or the opening / closing tag
\* of a secure-properties:config element.  sec counts the leading secure::
\* segments of a reference's name, sens tells whether the rest of the name
\* contains a sensitive pattern.
Item(k, sec, sens) == [k |-> k, sec |-> sec, sens |-> sens]
Txt == Item("txt", 0, FALSE)
SpcOpen == Item("spcOpen", 0, FALSE)
SpcClose == Item("spcClose", 0, FALSE)
IsRef(it) == it.k \in {"brace", "call"}

\* PATTERNS.securePropertyBraces / securePropertyDataWeave: a reference whose name starts with secure::
IsSecureRef(it) == IsRef(it) /\ it.sec > 0

\* one replacement of stripSecureFromContent: the first secure:: segment is dropped
StripItem(it) == IF IsSecureRef(it) THEN [it EXCEPT !.sec = @ - 1] ELSE it

stripSecureFromContent(c) ==
  [result |-> [i \in 1..Len(c) |-> StripItem(c[i])],
   count  |-> Cardinality({i \in 1..Len(c) : IsSecureRef(c[i])})]

\* positions of the references findUnsecuredProperties reports
findUnsecuredProperties(c) ==
  {i \in 1..Len(c) : IsRef(c[i]) /\ c[i].sec = 0 /\ c[i].sens}

\* a replace without the g flag: the first block goes, the rest is left as it is
RECURSIVE RemoveFirstFrom(_, _)
RemoveFirstFrom(c, i) ==
  IF i > Len(c) THEN << >>
  ELSE LET closes == {j \in (i+1)..Len(c) : c[j].k = "spcClose"}
       IN IF c[i].k = "spcOpen" /\ closes # {}
          THEN SubSeq(c, (CHOOSE j \in closes : \A j2 \in closes : j <= j2) + 1, Len(c))
          ELSE <<c[i]>> \o RemoveFirstFrom(c, i + 1)

RECURSIVE RemoveFrom(_, _)
RemoveFrom(c, i) ==
  IF i > Len(c) THEN << >>
  ELSE LET closes == {j \in (i+1)..Len(c) : c[j].k = "spcClose"}
       IN IF c[i].k = "spcOpen" /\ closes # {}
          THEN RemoveFrom(c, (CHOOSE j \in closes : \A j2 \in closes : j <= j2) + 1)
          ELSE <<c[i]>> \o RemoveFrom(c, i + 1)

removeSecurePropertiesConfig(c) == RemoveFrom(c, 1)

\* ------------------------------------------------------------------ files
File(c) == [ex |-> TRUE, c |-> c]
Absent == [ex |-> FALSE, c |-> << >>]

GlobalXml == [dir |-> "", base |-> "global", ext |-> "xml"]
FlowXml == [dir |-> "sub", base |-> "flow", ext |-> "xml"]
NotesTxt == [dir |-> "", base |-> "notes", ext |-> "txt"]
Paths == {GlobalXml, FlowXml, NotesTxt}

\* getXmlFiles: every existing file below the directory whose name ends in .xml
getXmlFiles(dirExists, files) ==
  IF ~dirExists THEN {} ELSE {p \in Paths : files[p].ex /\ p.ext = "xml"}

NoFiles == [p \in Paths |-> Absent]

\* contents the model starts from
CPlain == <<Txt>>
CSecured == <<Txt, Item("brace", 1, TRUE)>>
CUnsecured == <<Item("call", 0, TRUE)>>
CGlobal == <<SpcOpen, Txt, SpcClose, Item("call", 1, TRUE)>>

InitTrees ==
  {[p \in Paths |-> IF p = GlobalXml THEN g ELSE IF p = FlowXml THEN f ELSE File(CPlain)] :
     g \in {Absent, File(CPlain), File(CGlobal)},
     f \in {Absent, File(CPlain), File(CSecured), File(CUnsecured)}}

\* ------------------------------------------------------------- descriptor
Version == "1.0.0"
Pom(hasName, name) == [ex |-> TRUE, hasName |-> hasName, name |-> name, version |-> Version]
NoPom == [ex |-> FALSE, hasName |-> FALSE, name |-> << >>, version |-> Version]
ArtifactId == <<"app">>

\* getProjectName: <name>, else <artifactId>
getProjectName(p) == IF p.hasName THEN p.name ELSE ArtifactId

\* setName's edit: the first <name> element is replaced, a descriptor without one is left as it is
WithName(p, name) == IF p.hasName THEN [p EXCEPT !.name = name] ELSE p

EmptyTarget == [jar |-> FALSE, finals |-> {}, manifest |-> [ex |-> FALSE, changes |-> << >>]]

\* ----------------------------------------------------------------- state
NoOpts == [stripSecure |-> FALSE, environment |-> "none"]
NoLoc == [projectName |-> << >>, version |-> Version, xmlFilesBackedUp |-> FALSE, configChanges |-> << >>, pending |-> "none"]
NoHist ==
  [prePom |-> NoPom, preTree |-> NoFiles, snap |-> {}, pastBackupPom |-> FALSE, pomSnapOk |-> FALSE,
   restoreFailed |-> FALSE, pomEdited |-> FALSE, treeWritten |-> FALSE, bakTouched |-> FALSE,
   stripRan |-> FALSE, enforce |-> "none", buildExit |-> "none",
   locateInvoked |-> FALSE, copied |-> FALSE, manifestWritten |-> FALSE,
   viaRun |-> FALSE, mavenMissing |-> FALSE, clean |-> "none", procs |-> {}]
NoRt == [phase |-> "off", pre |-> NoFiles, mid |-> NoFiles, left |-> 0]
NoAux == [phase |-> "off"]

Init ==
  /\ pc = "idle"
  /\ opts = NoOpts
  /\ pom \in {NoPom, Pom(TRUE, ArtifactId), Pom(FALSE, << >>)}
  /\ pomBak = NoPom
  /\ muleDirExists \in BOOLEAN
  /\ tree \in (IF muleDirExists THEN InitTrees ELSE {NoFiles})
  /\ bakExists = FALSE
  /\ bak = NoFiles
  /\ target = EmptyTarget
  /\ loc = NoLoc
  /\ res = "none"
  /\ h = NoHist
  /\ runs = 0
  /\ rt = NoRt
  /\ aux = NoAux


\* ---------------------------------------------------------- entry points
Environments == {"none", "production"}
IsErr(r) == r \in {"err_precheck", "err_config", "err_security", "err_build", "err_nojar"}
CanInvoke == pc \in {"idle", "done"} /\ runs < MaxRuns /\ rt.phase = "off"

\* packageProject entered: options bound, locals fresh
Begin(strip, env) ==
  /\ CanInvoke
  /\ pc' = "precheck"
  /\ opts' = [stripSecure |-> strip, environment |-> env]
  /\ loc' = NoLoc
  /\ res' = "none"
  /\ h' = [NoHist EXCEPT !.prePom = pom, !.preTree = tree]
  /\ runs' = runs + 1
  /\ UNCHANGED <<pom, pomBak, muleDirExists, tree, bakExists, bak, target, rt, aux>>

\* the CLI refuses the call and exits before packageProject is entered
Rejected(strip, env) ==
  /\ CanInvoke
  /\ pc' = "done"
  /\ opts' = [stripSecure |-> strip, environment |-> env]
  /\ loc' = NoLoc
  /\ res' = "rejected"
  /\ h' = [NoHist EXCEPT !.prePom = pom, !.preTree = tree]
  /\ runs' = runs + 1
  /\ UNCHANGED <<pom, pomBak, muleDirExists, tree, bakExists, bak, target, rt, aux>>

\* cli.ts, package command: an environment other than production and the
\* combination --strip-secure with -e production are refused
CliPackage ==
  \E strip \in BOOLEAN, env \in Environments \cup {"staging"} :
    IF env \notin Environments \/ (strip /\ env = "production")
    THEN Rejected(strip, env)
    ELSE Begin(strip, env)

\* mcp/index.ts, run_build: the schema admits both options together and the handler passes them on
McpRunBuild == \E strip \in BOOLEAN, env \in Environments : Begin(strip, env)

\* a direct call of the exported packageProject
ApiPackage == \E strip \in BOOLEAN, env \in Environments : Begin(strip, env)

\* a pre-flight check that does not look for pom.xml
canBuildNoPomCheck(mavenInstalled, pomExists) == mavenInstalled

\* canBuild: Maven on the PATH and pom.xml present
canBuild(mavenInstalled, pomExists) == mavenInstalled /\ pomExists

\* canRun: canBuild and a valid MULE_HOME
canRun(mavenInstalled, pomExists, muleHomeValid) == canBuild(mavenInstalled, pomExists) /\ muleHomeValid

\* cli.ts, run command: runLocal({debug, clean}).  runLocal returns an error
\* when canRun fails, else calls packageProject({stripSecure: options.stripSecure,
\* skipTests: options.skipTests, cwd}) with both options undefined
CliRun ==
  \E mavenInstalled \in BOOLEAN, muleHomeValid \in BOOLEAN :
    IF canRun(mavenInstalled, pom.ex, muleHomeValid)
    THEN /\ CanInvoke
         /\ pc' = "precheck"
         /\ opts' = NoOpts
         /\ loc' = NoLoc
         /\ res' = "none"
         /\ h' = [NoHist EXCEPT !.prePom = pom, !.preTree = tree, !.viaRun = TRUE]
         /\ runs' = runs + 1
         /\ UNCHANGED <<pom, pomBak, muleDirExists, tree, bakExists, bak, target, rt, aux>>
    ELSE Rejected(FALSE, "none")

\* runLocal after packageProject returned ok: deployToLocal(jarPath)
DeployLocal ==
  /\ pc = "done"
  /\ h.viaRun
  /\ res = "ok"
  /\ \E deployed \in BOOLEAN : res' = IF deployed THEN "deployed" ELSE "err_deploy"
  /\ UNCHANGED <<pc, opts, pom, pomBak, muleDirExists, tree, bakExists, bak, target, loc, h, runs, rt, aux>>

\* --------------------------------------------------------- packageProject
\* return without entering the try block: the call ends here
Return(r) ==
  /\ pc' = "done"
  /\ res' = r

\* an exit from inside the try block (return or throw): the finally block runs first
Leave(r) ==
  /\ pc' = "finallyPom"
  /\ loc' = [loc EXCEPT !.pending = r]

\* a strip transform that runs whatever the options say
AlwaysStrip(o) == TRUE

\* whether packageProject runs the strip transform
ShouldStrip(o) == o.stripSecure

AfterClean == IF ShouldStrip(opts) THEN "strip" ELSE IF opts.environment = "production" THEN "enforce" ELSE "setName"
\* a pipeline that cleans again behind the strip transform
AfterStripRetry == "clean"
AfterStrip == IF opts.environment = "production" THEN "enforce" ELSE "setName"

\* the pre-flight check of packageProject: a failure of canBuild is returned
Precheck ==
  /\ pc = "precheck"
  /\ \E mavenInstalled \in BOOLEAN :
       /\ h' = [h EXCEPT !.mavenMissing = ~mavenInstalled]
       /\ IF canBuild(mavenInstalled, pom.ex)
          THEN pc' = "loadConfig" /\ res' = res
          ELSE Return("err_precheck")
  /\ UNCHANGED <<opts, pom, pomBak, muleDirExists, tree, bakExists, bak, target, loc, runs, rt, aux>>

\* loadConfig (a mule-build.yaml that does not parse fails the call), then the project
\* name and the version are read: options.version when given is the version
\* releaseVersion has just written to pom.xml
LoadConfig ==
  /\ pc = "loadConfig"
  /\ \E parsed \in BOOLEAN :
       IF parsed
       THEN /\ pc' = "backupPom"
            /\ res' = res
            /\ loc' = [loc EXCEPT !.projectName = getProjectName(pom), !.version = pom.version]
       ELSE Return("err_config") /\ loc' = loc
  /\ UNCHANGED <<opts, pom, pomBak, muleDirExists, tree, bakExists, bak, target, h, runs, rt, aux>>

\* backupPom: pom.xml is read and written to pom.xml.bak; a failure is only logged
BackupPom ==
  /\ pc = "backupPom"
  /\ \E written \in BOOLEAN :
       IF pom.ex /\ written
       THEN pomBak' = pom /\ h' = [h EXCEPT !.pastBackupPom = TRUE, !.pomSnapOk = TRUE]
       ELSE pomBak' = pomBak /\ h' = [h EXCEPT !.pastBackupPom = TRUE]
  /\ pc' = IF opts.stripSecure THEN "backupXml" ELSE "clean"
  /\ UNCHANGED <<opts, pom, muleDirExists, tree, bakExists, bak, target, loc, res, runs, rt, aux>>

\* a copy that leaves the destination as it was
CopyNothing(files, from, to) == to

\* files copied from one directory into the other
CopyFiles(files, from, to) == [p \in Paths |-> IF p \in files THEN from[p] ELSE to[p]]

\* a snapshot that moves the files into the backup directory
MovedFrom(files, from) == [p \in Paths |-> IF p \in files THEN Absent ELSE from[p]]

\* the directory copyFileSync(file, backupPath) read the files from, after the copies
CopiedFrom(files, from) == from

\* backupXmlFiles(sourceDir, backupDir): nothing when the source directory is
\* missing; else the backup directory is made and every XML file copied into
\* it.  mkdirSync or a copyFileSync may throw, after any part of the copies.
backupXmlFiles(dirExists, t, bEx, b) ==
  IF ~dirExists
  THEN {[source |-> t, bakExists |-> bEx, bak |-> b, backedUp |-> {}, thrown |-> FALSE]}
  ELSE LET files == getXmlFiles(dirExists, t)
       IN {[source |-> CopiedFrom(files, t), bakExists |-> TRUE, bak |-> CopyFiles(files, t, b),
            backedUp |-> files, thrown |-> FALSE]}
          \cup {[source |-> CopiedFrom(c, t), bakExists |-> TRUE, bak |-> CopyFiles(c, t, b),
                   backedUp |-> c, thrown |-> TRUE] :
                  c \in (SUBSET files) \ {files}}
          \cup {[source |-> t, bakExists |-> bEx, bak |-> b, backedUp |-> {}, thrown |-> TRUE]}

\* restoreXmlFiles that removes the backup directory without copying anything back
restoreXmlFilesNoCopy(t, bEx, b) ==
  {[tree |-> t, bakExists |-> FALSE, bak |-> NoFiles, copied |-> {}, thrown |-> FALSE]}

\* restoreXmlFiles(sourceDir, backupDir): nothing when the backup directory is
\* missing; else every XML file of the backup is copied back and the backup
\* directory removed, errors of the removal ignored.  A copyFileSync may throw.
restoreXmlFiles(t, bEx, b) ==
  IF ~bEx
  THEN {[tree |-> t, bakExists |-> bEx, bak |-> b, copied |-> {}, thrown |-> FALSE]}
  ELSE LET files == getXmlFiles(bEx, b)
       IN {[tree |-> CopyFiles(files, b, t), bakExists |-> FALSE, bak |-> NoFiles, copied |-> files, thrown |-> FALSE],
           [tree |-> CopyFiles(files, b, t), bakExists |-> TRUE, bak |-> b, copied |-> files, thrown |-> FALSE]}
          \cup {[tree |-> CopyFiles(c, b, t), bakExists |-> TRUE, bak |-> b, copied |-> c, thrown |-> TRUE] :
                  c \in (SUBSET files) \ {files}}

\* the snapshot of the config tree, taken before the try block when stripSecure
\* is set: an exception of backupXmlFiles ends the call
BackupXml ==
  /\ pc = "backupXml"
  /\ \E o \in backupXmlFiles(muleDirExists, tree, bakExists, bak) :
       /\ tree' = o.source
       /\ bakExists' = o.bakExists
       /\ bak' = o.bak
       /\ h' = [h EXCEPT !.snap = o.backedUp, !.bakTouched = @ \/ o.bakExists]
       /\ IF o.thrown
          THEN Return("thrown") /\ loc' = loc
          ELSE /\ pc' = "clean"
               /\ res' = res
               /\ loc' = [loc EXCEPT !.xmlFilesBackedUp = (o.backedUp # {})]
  /\ UNCHANGED <<opts, pom, pomBak, muleDirExists, target, runs, rt, aux>>

\* how a spawned process (mvn clean, mvn package) ends: an exit code, a signal (no exit code), or no process at all
Exit(code) == [kind |-> "exit", code |-> code]
Signal == [kind |-> "signal", code |-> 0]
SpawnFail == [kind |-> "spawnfail", code |-> 0]
Terminations == {Exit(0), Exit(1), Signal, SpawnFail}

\* exec: 'error' resolves a failure, 'close' resolves ok with exitCode: code ?? 0
exec(t) ==
  IF t.kind = "spawnfail" THEN [success |-> FALSE, exitCode |-> 0]
  ELSE [success |-> TRUE, exitCode |-> IF t.kind = "signal" THEN 0 ELSE t.code]

\* mavenClean succeeds when exec succeeded with exit code 0
mavenClean(t) == LET result == exec(t) IN result.success /\ result.exitCode = 0

\* target/ after `mvn clean -q` ended: removed when it exited 0, untouched
\* when no process was spawned, either of the two otherwise
TargetsAfterClean(t) ==
  IF t.kind = "spawnfail" THEN {target}
  ELSE IF t.kind = "exit" /\ t.code = 0 THEN {EmptyTarget}
  ELSE {target, EmptyTarget}

\* a pipeline that gives up when the clean step failed
StopsAfterFailedClean(cleanSucceeded) == cleanSucceeded

\* whether packageProject goes on after the clean step: a failed
\* cleanResult is logged as a warning, nothing else depends on it
GoesOnAfterClean(cleanSucceeded) == TRUE

\* exec and execWithOutput up to the promise they return: spawn(command, args,
\* {shell: true}) starts the process, or starts none and emits 'error' later;
\* the caller awaits the promise
Spawn ==
  /\ pc \in {"clean", "build"}
  /\ \E started \in BOOLEAN :
       h' = [h EXCEPT !.procs = IF started THEN @ \cup {pc} ELSE @]
  /\ pc' = IF pc = "clean" THEN "cleaning" ELSE "building"
  /\ UNCHANGED <<opts, pom, pomBak, muleDirExists, tree, bakExists, bak, target, loc, res, runs, rt, aux>>

\* the promise of mavenClean resolves: on 'close' of the process, or on
\* 'error' when none was started
Clean ==
  /\ pc = "cleaning"
  /\ \E t \in Terminations :
       /\ (t = SpawnFail) <=> ("clean" \notin h.procs)
       /\ target' \in TargetsAfterClean(t)
       /\ h' = [h EXCEPT !.clean = IF mavenClean(t) THEN "ok" ELSE "failed", !.procs = @ \ {"clean"}]
       /\ IF GoesOnAfterClean(mavenClean(t))
          THEN pc' = AfterClean /\ loc' = loc
          ELSE Leave("err_build")
  /\ UNCHANGED <<opts, pom, pomBak, muleDirExists, tree, bakExists, bak, res, runs, rt, aux>>


\* an entry of configChanges
Entry(what, n, name) == [what |-> what, n |-> n, name |-> name]

\* the XML files stripSecure rewrites among those it got to: the ones with at least one replacement
Rewritten(files, t) == {p \in files : stripSecureFromContent(t[p].c).count > 0}
StripFiles(files, t) ==
  [p \in Paths |-> IF p \in Rewritten(files, t) THEN File(stripSecureFromContent(t[p].c).result) ELSE t[p]]
SumCounts(files, t) ==
  LET RECURSIVE Sum(_)
      Sum(S) == IF S = {} THEN 0
                ELSE LET p == CHOOSE q \in S : TRUE
                     IN stripSecureFromContent(t[p].c).count + Sum(S \ {p})
  IN Sum(files)

\* stripSecure(muleDir): a missing directory or a read / write that throws
\* makes it return a failure, which packageProject does not look at
Strip ==
  /\ pc = "strip"
  /\ IF ~muleDirExists
     THEN h' = [h EXCEPT !.stripRan = TRUE] /\ UNCHANGED <<tree, loc>>
     ELSE LET files == getXmlFiles(muleDirExists, tree)
          IN \E processed \in SUBSET files :
               /\ tree' = StripFiles(processed, tree)
               /\ h' = [h EXCEPT !.stripRan = TRUE,
                                 !.treeWritten = @ \/ Rewritten(processed, tree) # {}]
               /\ loc' = IF processed = files
                         THEN [loc EXCEPT !.configChanges =
                                 @ \o <<Entry("stripped", Cardinality(Rewritten(files, tree)), << >>),
                                        Entry("replacements", SumCounts(files, tree), << >>)>>]
                         ELSE loc
  /\ pc' = "removeSpc"
  /\ UNCHANGED <<opts, pom, pomBak, muleDirExists, bakExists, bak, target, res, runs, rt, aux>>

\* the secure-properties:config element is removed from global.xml; the read
\* and the write are not guarded, so a failure leaves the try block as an exception
RemoveSpc ==
  /\ pc = "removeSpc"
  /\ IF muleDirExists /\ tree[GlobalXml].ex
     THEN LET content == tree[GlobalXml].c
              newContent == removeSecurePropertiesConfig(content)
          IN \/ /\ content # newContent
                /\ tree' = [tree EXCEPT ![GlobalXml] = File(newContent)]
                /\ loc' = [loc EXCEPT !.configChanges = @ \o <<Entry("removedSpc", 0, << >>)>>]
                /\ h' = [h EXCEPT !.treeWritten = TRUE]
                /\ pc' = AfterStrip
             \/ /\ content = newContent
                /\ pc' = AfterStrip
                /\ UNCHANGED <<tree, loc, h>>
             \/ /\ Leave("thrown")
                /\ UNCHANGED <<tree, h>>
     ELSE /\ pc' = AfterStrip
          /\ UNCHANGED <<tree, loc, h>>
  /\ UNCHANGED <<opts, pom, pomBak, muleDirExists, bakExists, bak, target, res, runs, rt, aux>>

\* enforceSecure(muleDir): a failure Result when the directory is missing or a
\* file cannot be read, else the files holding an unsecured sensitive reference
enforceSecure(dirExists, files, readable) ==
  IF ~dirExists \/ ~readable
  THEN [success |-> FALSE, valid |-> FALSE, violations |-> {}]
  ELSE LET v == {p \in getXmlFiles(dirExists, files) : findUnsecuredProperties(files[p].c) # {}}
       IN [success |-> TRUE, valid |-> (v = {}), violations |-> v]

\* the condition under which packageProject returns the security-validation error
EnforceAborts(r) == r.success /\ ~r.valid

Enforce ==
  /\ pc = "enforce"
  /\ \E readable \in BOOLEAN :
       LET enforceResult == enforceSecure(muleDirExists, tree, readable)
       IN /\ h' = [h EXCEPT !.enforce = IF ~enforceResult.success THEN "error"
                                         ELSE IF enforceResult.valid THEN "valid" ELSE "violations"]
          /\ IF EnforceAborts(enforceResult)
             THEN Leave("err_security")
             ELSE /\ pc' = "setName"
                  /\ loc' = [loc EXCEPT !.configChanges = @ \o <<Entry("validated", 0, << >>)>>]
  /\ UNCHANGED <<opts, pom, pomBak, muleDirExists, tree, bakExists, bak, target, res, runs, rt, aux>>

envSuffix == IF opts.environment # "none" THEN <<opts.environment>> ELSE << >>
\* a name that carries the local segment whatever the options are
stripSuffixAlways == <<"local">>
stripSuffix == IF opts.stripSecure /\ opts.environment = "none" THEN <<"local">> ELSE << >>
envName == loc.projectName \o envSuffix \o stripSuffix \o <<loc.version>>

\* setName(envName): pom.xml is rewritten with the package name; its Result is ignored
SetName ==
  /\ pc = "setName"
  /\ \E written \in BOOLEAN :
       IF pom.ex /\ written
       THEN /\ pom' = WithName(pom, envName)
            /\ h' = [h EXCEPT !.pomEdited = @ \/ (WithName(pom, envName) # pom)]
       ELSE UNCHANGED <<pom, h>>
  /\ loc' = [loc EXCEPT !.configChanges = @ \o <<Entry("setName", 0, envName)>>]
  /\ pc' = "build"
  /\ UNCHANGED <<opts, pomBak, muleDirExists, tree, bakExists, bak, target, res, runs, rt, aux>>


\* execWithOutput: 'error' resolves a failure, 'close' resolves ok(code ?? 0)
execWithOutput(t) ==
  IF t.kind = "spawnfail" THEN [success |-> FALSE, data |-> 0]
  ELSE [success |-> TRUE, data |-> IF t.kind = "signal" THEN 0 ELSE t.code]

\* mavenBuild succeeds when execWithOutput succeeded with data 0
mavenBuild(t) == LET result == execWithOutput(t) IN result.success /\ result.data = 0

\* target/ after the build process ended: a build that exits 0 leaves a fresh
\* directory, with or without an artifact; a failed one leaves it cleaned; a
\* killed one leaves it with or without an artifact; none leaves it alone
TargetsAfter(t) ==
  IF t.kind = "spawnfail" THEN {target}
  ELSE IF t.kind = "exit" /\ t.code # 0 THEN {EmptyTarget}
  ELSE {EmptyTarget, [EmptyTarget EXCEPT !.jar = TRUE]}

\* the promise of mavenBuild resolves: on 'close' of the process, or on
\* 'error' when none was started
Build ==
  /\ pc = "building"
  /\ \E t \in Terminations :
       /\ (t = SpawnFail) <=> ("build" \notin h.procs)
       /\ target' \in TargetsAfter(t)
       /\ h' = [h EXCEPT !.buildExit = IF t.kind = "exit" THEN (IF t.code = 0 THEN "zero" ELSE "nonzero") ELSE t.kind,
                         !.procs = @ \ {"build"}]
       /\ IF mavenBuild(t)
          THEN pc' = "locate" /\ loc' = loc
          ELSE Leave("err_build")
  /\ UNCHANGED <<opts, pom, pomBak, muleDirExists, tree, bakExists, bak, res, runs, rt, aux>>

\* findBuiltJar: the Mule application jar, else any jar in target/
findBuiltJar(tg) == tg.jar \/ tg.finals # {}

Locate ==
  /\ pc = "locate"
  /\ h' = [h EXCEPT !.locateInvoked = TRUE]
  /\ IF findBuiltJar(target)
     THEN pc' = "copy" /\ loc' = loc
     ELSE Leave("err_nojar")
  /\ UNCHANGED <<opts, pom, pomBak, muleDirExists, tree, bakExists, bak, target, res, runs, rt, aux>>

\* the name of the renamed copy; the clock is the number of the invocation
finalJarName == [name |-> loc.projectName \o envSuffix \o stripSuffix \o <<loc.version>>, timestamp |-> runs]

\* copyFileSync(jarPath, finalJarPath): unguarded
Copy ==
  /\ pc = "copy"
  /\ \/ /\ target' = [target EXCEPT !.finals = @ \cup {finalJarName}]
        /\ h' = [h EXCEPT !.copied = TRUE]
        /\ pc' = "manifest"
        /\ loc' = loc
     \/ /\ Leave("thrown")
        /\ UNCHANGED <<target, h>>
  /\ UNCHANGED <<opts, pom, pomBak, muleDirExists, tree, bakExists, bak, res, runs, rt, aux>>

\* writeFileSync(deployment-info.txt): unguarded; then return ok
Manifest ==
  /\ pc = "manifest"
  /\ \/ /\ target' = [target EXCEPT !.manifest = [ex |-> TRUE, changes |-> loc.configChanges]]
        /\ h' = [h EXCEPT !.manifestWritten = TRUE]
        /\ Leave("ok")
     \/ /\ Leave("thrown")
        /\ UNCHANGED <<target, h>>
  /\ UNCHANGED <<opts, pom, pomBak, muleDirExists, tree, bakExists, bak, res, runs, rt, aux>>

\* finally, first part: restorePom (its Result is ignored), then pom.xml.bak
\* is unlinked, errors ignored
FinallyPom ==
  /\ pc = "finallyPom"
  /\ IF pomBak.ex
     THEN /\ \E restored \in BOOLEAN :
               IF restored
               THEN pom' = pomBak /\ h' = h
               ELSE pom' = pom /\ h' = [h EXCEPT !.restoreFailed = TRUE]
          /\ \E unlinked \in BOOLEAN : pomBak' = IF unlinked THEN NoPom ELSE pomBak
     ELSE UNCHANGED <<pom, pomBak, h>>
  /\ IF loc.xmlFilesBackedUp
     THEN pc' = "finallyXml" /\ res' = res
     ELSE Return(loc.pending)
  /\ UNCHANGED <<opts, muleDirExists, tree, bakExists, bak, target, loc, runs, rt, aux>>

\* finally, second part, entered when xmlFilesBackedUp: restoreXmlFiles; an
\* exception of it replaces the pending outcome of the call
FinallyXml ==
  /\ pc = "finallyXml"
  /\ \E o \in restoreXmlFiles(tree, bakExists, bak) :
       /\ tree' = o.tree
       /\ bakExists' = o.bakExists
       /\ bak' = o.bak
       /\ h' = [h EXCEPT !.restoreFailed = @ \/ o.thrown, !.treeWritten = @ \/ o.copied # {}]
       /\ Return(IF o.thrown THEN "thrown" ELSE loc.pending)
  /\ UNCHANGED <<opts, pom, pomBak, muleDirExists, target, loc, runs, rt, aux>>

Next ==
  \/ CliPackage
  \/ McpRunBuild
  \/ ApiPackage
  \/ CliRun
  \/ DeployLocal
  \/ Precheck
  \/ LoadConfig
  \/ BackupPom
  \/ BackupXml
  \/ Spawn
  \/ Clean
  \/ Strip
  \/ RemoveSpc
  \/ Enforce
  \/ SetName
  \/ Build
  \/ Locate
  \/ Copy
  \/ Manifest
  \/ FinallyPom
  \/ FinallyXml

Spec == Init /\ [][Next]_vars


\* ------------------------------------------------- snapshot / restore alone
\* backupXmlFiles and restoreXmlFiles on a config tree that is edited in
\* between: snapshot, mutations (content edits and deletions of files), restore.
RtContents == {CPlain, CSecured, CUnsecured}
RtTrees == [Paths -> {Absent} \cup {File(c) : c \in RtContents}]

InitRoundTrip ==
  /\ pc = "idle"
  /\ opts = NoOpts
  /\ pom = Pom(TRUE, ArtifactId)
  /\ pomBak = NoPom
  /\ muleDirExists = TRUE
  /\ tree \in RtTrees
  /\ bakExists = FALSE
  /\ bak = NoFiles
  /\ target = EmptyTarget
  /\ loc = NoLoc
  /\ res = "none"
  /\ h = NoHist
  /\ runs = 0
  /\ rt = [phase |-> "idle", pre |-> NoFiles, mid |-> NoFiles, left |-> MaxMutations]
  /\ aux = NoAux

RtSnapshot ==
  /\ rt.phase \in {"idle", "restored", "failed"}
  /\ \E o \in backupXmlFiles(muleDirExists, tree, bakExists, bak) :
       /\ tree' = o.source
       /\ bakExists' = o.bakExists
       /\ bak' = o.bak
       /\ rt' = IF o.thrown
                THEN [rt EXCEPT !.phase = "idle", !.pre = NoFiles, !.mid = NoFiles]
                ELSE [rt EXCEPT !.phase = "snapshotted", !.pre = tree, !.mid = NoFiles]
  /\ UNCHANGED <<pc, opts, pom, pomBak, muleDirExists, target, loc, res, h, runs, aux>>

\* an existing file of the tree is given another content or deleted
RtMutate ==
  /\ rt.phase \in {"idle", "snapshotted"}
  /\ rt.left > 0
  /\ \E p \in Paths, f \in {Absent} \cup {File(c) : c \in RtContents} :
       /\ tree[p].ex
       /\ f # tree[p]
       /\ tree' = [tree EXCEPT ![p] = f]
  /\ rt' = [rt EXCEPT !.left = @ - 1]
  /\ UNCHANGED <<pc, opts, pom, pomBak, muleDirExists, bakExists, bak, target, loc, res, h, runs, aux>>

RtRestore ==
  /\ rt.phase = "snapshotted"
  /\ \E o \in restoreXmlFiles(tree, bakExists, bak) :
       /\ tree' = o.tree
       /\ bakExists' = o.bakExists
       /\ bak' = o.bak
       /\ rt' = [rt EXCEPT !.phase = IF o.thrown THEN "failed" ELSE "restored", !.mid = tree]
  /\ UNCHANGED <<pc, opts, pom, pomBak, muleDirExists, target, loc, res, h, runs, aux>>

NextRoundTrip ==
  \/ RtSnapshot
  \/ RtMutate
  \/ RtRestore

SpecRoundTrip == InitRoundTrip /\ [][NextRoundTrip]_vars


\* ------------------------------------------- two calls in one project directory
\* Two packageProject({stripSecure: true}) calls run against the same cwd.  A
\* call gives up control where it awaits a spawned process: in canBuild, at
\* mavenClean and at mavenBuild.  Its synchronous stretches behind canBuild are
\* the steps of this specification: the snapshot, the transforms, the finally block.
\* Reads and writes of the transforms succeed here; the copies of the snapshot
\* and of the restore fail as in backupXmlFiles / restoreXmlFiles.
Invocations == {"first", "second"}
Cwd == "project"

\* backupDir = join(cwd, '.mule-build-backup')
backupDir(cwd) == <<cwd, ".mule-build-backup">>

NoOwner == [p \in Paths |-> "nobody"]

InitConcurrent ==
  /\ pc = "idle"
  /\ opts = [NoOpts EXCEPT !.stripSecure = TRUE]
  /\ pom = Pom(TRUE, ArtifactId)
  /\ pomBak = NoPom
  /\ muleDirExists = TRUE
  /\ tree \in RtTrees \cup InitTrees
  /\ bakExists = FALSE
  /\ bak = NoFiles
  /\ target = EmptyTarget
  /\ loc = NoLoc
  /\ res = "none"
  /\ h = NoHist
  /\ runs = 0
  /\ rt = NoRt
  /\ aux = [phase |-> "concurrent",
            at |-> [i \in Invocations |-> "start"],
            dir |-> [i \in Invocations |-> << >>],
            xmlFilesBackedUp |-> [i \in Invocations |-> FALSE],
            live |-> {},
            owner |-> NoOwner,
            touched |-> [i \in Invocations |-> {}],
            pre |-> tree]

\* entry of call i up to `await mavenClean`: the snapshot into backupDir
CcEnter(i) ==
  /\ aux.phase = "concurrent"
  /\ aux.at[i] = "start"
  /\ \E o \in backupXmlFiles(muleDirExists, tree, bakExists, bak) :
       LET overwritten == {p \in o.backedUp : aux.owner[p] \notin {"nobody", i} /\ aux.owner[p] \in aux.live}
       IN /\ bakExists' = o.bakExists
          /\ bak' = o.bak
          /\ aux' = [aux EXCEPT
                       !.at[i] = IF o.thrown THEN "ended" ELSE "cleaning",
                       !.dir[i] = backupDir(Cwd),
                       !.xmlFilesBackedUp[i] = ~o.thrown /\ o.backedUp # {},
                       !.live = IF ~o.thrown /\ o.backedUp # {} THEN @ \cup {i} ELSE @,
                       !.owner = [p \in Paths |-> IF p \in o.backedUp THEN i ELSE @[p]],
                       !.touched[i] = IF overwritten # {} THEN @ \cup {"overwrote"} ELSE @]
  /\ UNCHANGED <<pc, opts, pom, pomBak, muleDirExists, tree, target, loc, res, h, runs, rt>>

\* call i between `await mavenClean` and `await mavenBuild`: stripSecure on
\* the config tree, then the secure-properties:config element leaves global.xml
CcTransform(i) ==
  /\ aux.phase = "concurrent"
  /\ aux.at[i] = "cleaning"
  /\ LET stripped == StripFiles(getXmlFiles(muleDirExists, tree), tree)
     IN tree' = IF stripped[GlobalXml].ex
                THEN [stripped EXCEPT ![GlobalXml] = File(removeSecurePropertiesConfig(stripped[GlobalXml].c))]
                ELSE stripped
  /\ aux' = [aux EXCEPT !.at[i] = "building"]
  /\ UNCHANGED <<pc, opts, pom, pomBak, muleDirExists, bakExists, bak, target, loc, res, h, runs, rt>>

\* call i after `await mavenBuild`: the finally block restores from backupDir
\* when this call backed files up, and removes the directory
CcFinally(i) ==
  /\ aux.phase = "concurrent"
  /\ aux.at[i] = "building"
  /\ IF aux.xmlFilesBackedUp[i]
     THEN \E o \in restoreXmlFiles(tree, bakExists, bak) :
            LET others == aux.live \ {i}
                foreign == {p \in o.copied : aux.owner[p] # i}
                removed == bakExists /\ ~o.bakExists
            IN /\ tree' = o.tree
               /\ bakExists' = o.bakExists
               /\ bak' = o.bak
               /\ aux' = [aux EXCEPT
                            !.at[i] = "ended",
                            !.live = @ \ {i},
                            !.owner = IF removed THEN NoOwner ELSE @,
                            !.touched[i] = @ \cup (IF foreign # {} THEN {"read"} ELSE {})
                                             \cup (IF removed /\ others # {} THEN {"deleted"} ELSE {})]
     ELSE /\ aux' = [aux EXCEPT !.at[i] = "ended"]
          /\ UNCHANGED <<tree, bakExists, bak>>
  /\ UNCHANGED <<pc, opts, pom, pomBak, muleDirExists, target, loc, res, h, runs, rt>>

NextConcurrent ==
  \/ \E i \in Invocations : CcEnter(i)
  \/ \E i \in Invocations : CcTransform(i)
  \/ \E i \in Invocations : CcFinally(i)

SpecConcurrent == InitConcurrent /\ [][NextConcurrent]_vars


\* ------------------------------------------------- the functions on one text
\* Here a file content is a sequence of lexemes: the delimiters the four
\* PATTERNS are written with, the marker secure::, the line break, and single
\* characters.  No lexeme occurs inside another one, so a regular expression of
\* PATTERNS matches at a lexeme boundary or not at all.
\* open / close: the literal text around the name; stops: the lexemes holding
\* the character the name's class [^}] or [^'] excludes.
PATTERNS ==
  [securePropertyBraces    |-> [open |-> "${", secure |-> TRUE, stops |-> {"}"}, close |-> "}"],
   securePropertyDataWeave |-> [open |-> "Mule::p('", secure |-> TRUE, stops |-> {"Mule::p('", "')"}, close |-> "')"],
   anyProperty             |-> [open |-> "${", secure |-> FALSE, stops |-> {"}"}, close |-> "}"],
   anyDataWeaveProperty    |-> [open |-> "Mule::p('", secure |-> FALSE, stops |-> {"Mule::p('", "')"}, close |-> "')"]]

\* index of the first lexeme of the name when pattern pat matches at i
NameStart(i, pat) == IF pat.secure THEN i + 2 ELSE i + 1

\* pat matches in s at i: the index of its last lexeme, else 0.  The name is
\* the non-empty run up to the first excluded character, which must begin the
\* closing text.
MatchAt(s, i, pat) ==
  LET n == NameStart(i, pat)
      ends == {j \in n..Len(s) : s[j] \in pat.stops}
      e == IF ends = {} THEN 0 ELSE CHOOSE j \in ends : \A j2 \in ends : j <= j2
  IN IF /\ s[i] = pat.open
        /\ (pat.secure => (i + 1 <= Len(s) /\ s[i + 1] = "secure::"))
        /\ e > n
        /\ s[e] = pat.close
     THEN e ELSE 0

\* a replacement that loses the name
StripReplacementNoName(pat, name) == <<pat.open, pat.close>>

\* the replacement callbacks: `${${propName}}` and `Mule::p('${propName}')`
StripReplacement(pat, name) == <<pat.open>> \o name \o <<pat.close>>

\* content.replace(pat, callback) with the g flag: matches are taken left to
\* right, the search resuming behind each match
RECURSIVE ReplaceFrom(_, _, _)
ReplaceFrom(s, i, pat) ==
  IF i > Len(s) THEN [result |-> << >>, count |-> 0]
  ELSE LET e == MatchAt(s, i, pat)
       IN IF e > 0
          THEN LET rest == ReplaceFrom(s, e + 1, pat)
               IN [result |-> StripReplacement(pat, SubSeq(s, NameStart(i, pat), e - 1)) \o rest.result,
                   count |-> 1 + rest.count]
          ELSE LET rest == ReplaceFrom(s, i + 1, pat)
               IN [result |-> <<s[i]>> \o rest.result, count |-> rest.count]

\* stripSecureFromContent on a lexeme sequence: the brace pass, then the call pass on its result
stripSecureFromText(content) ==
  LET braces == ReplaceFrom(content, 1, PATTERNS.securePropertyBraces)
      dataWeave == ReplaceFrom(braces.result, 1, PATTERNS.securePropertyDataWeave)
  IN [result |-> dataWeave.result, count |-> braces.count + dataWeave.count]

\* the texts of the text specification: up to MaxFrags fragments in a row.
\* key, host and API_KEY are property names or plain text.
Fragments ==
  {<<"${", "key", "}">>, <<"${", "host", "}">>, <<"${", "secure::", "key", "}">>,
   <<"${", "secure::", "secure::", "key", "}">>,
   <<"Mule::p('", "key", "')">>, <<"Mule::p('", "API_KEY", "')">>, <<"Mule::p('", "secure::", "key", "')">>,
   <<"\n">>, <<"host">>, <<"${">>, <<"}">>, <<"secure::">>}

RECURSIVE TextsOf(_)
TextsOf(n) ==
  IF n = 0 THEN {<< >>}
  ELSE LET T == TextsOf(n - 1) IN T \cup {t \o f : t \in T, f \in Fragments}

NoStripped == [result |-> << >>, count |-> 0]

\* the characters of a lexeme
Chars(lex) ==
  CASE lex = "${" -> <<"$", "{">>
    [] lex = "secure::" -> <<"s", "e", "c", "u", "r", "e", ":", ":">>
    [] lex = "Mule::p('" -> <<"M", "u", "l", "e", ":", ":", "p", "(", "'">>
    [] lex = "')" -> <<"'", ")">>
    [] lex = "key" -> <<"k", "e", "y">>
    [] lex = "host" -> <<"h", "o", "s", "t">>
    [] lex = "API_KEY" -> <<"A", "P", "I", "_", "K", "E", "Y">>
    [] OTHER -> <<lex>>

RECURSIVE Spell(_)
Spell(s) == IF s = << >> THEN << >> ELSE Chars(Head(s)) \o Spell(Tail(s))

\* case folding of the i flag, for the letters of the model's texts and patterns
Lower(ch) ==
  CASE ch = "A" -> "a" [] ch = "P" -> "p" [] ch = "I" -> "i" [] ch = "K" -> "k"
    [] ch = "E" -> "e" [] ch = "Y" -> "y" [] ch = "M" -> "m" [] ch = "S" -> "s"
    [] OTHER -> ch

DEFAULT_SENSITIVE_PATTERNS ==
  <<<<"p", "a", "s", "s", "w", "o", "r", "d">>,
    <<"s", "e", "c", "r", "e", "t">>,
    <<"k", "e", "y">>,
    <<"t", "o", "k", "e", "n">>,
    <<"c", "r", "e", "d", "e", "n", "t", "i", "a", "l">>,
    <<"a", "p", "i", "k", "e", "y">>,
    <<"a", "p", "i", "-", "k", "e", "y">>,
    <<"a", "p", "i", "_", "k", "e", "y">>,
    <<"c", "o", "n", "s", "u", "m", "e", "r", "K", "e", "y">>,
    <<"c", "o", "n", "s", "u", "m", "e", "r", "S", "e", "c", "r", "e", "t">>,
    <<"t", "o", "k", "e", "n", "I", "d">>,
    <<"t", "o", "k", "e", "n", "S", "e", "c", "r", "e", "t">>>>

\* the pattern lists a scan is called with: the default, no pattern at all,
\* and the custom pattern api.key
PatternLists == {DEFAULT_SENSITIVE_PATTERNS, << >>, << <<"a", "p", "i", ".", "k", "e", "y">> >>}

\* one pattern character against one character of the name, as the regular
\* expression built from the pattern reads it: the dot matches any character
\* of a line, every other character of the model's patterns itself; i flag
RegExpAtom(a, ch) == a = "." \/ Lower(a) = Lower(ch)

\* new RegExp(sensitivePatterns.join('|'), 'i').test(propName): some
\* alternative matches somewhere in the name; the join of an empty list is the
\* empty expression, which matches every name
RegExpTest(sensitivePatterns, propName) ==
  LET name == Spell(propName)
  IN \/ sensitivePatterns = << >>
     \/ \E n \in 1..Len(sensitivePatterns) :
          LET alt == sensitivePatterns[n]
          IN \E start \in 0..(Len(name) - Len(alt)) :
               \A k \in 1..Len(alt) : RegExpAtom(alt[k], name[start + k])

\* content.split('\n')
RECURSIVE Split(_)
Split(s) ==
  LET breaks == {i \in 1..Len(s) : s[i] = "\n"}
  IN IF breaks = {} THEN <<s>>
     ELSE LET b == CHOOSE i \in breaks : \A i2 \in breaks : i <= i2
          IN <<SubSeq(s, 1, b - 1)>> \o Split(SubSeq(s, b + 1, Len(s)))

\* line.matchAll(pat): the matches left to right, the search resuming behind
\* each match.  index (match.index, counted in lexemes) and form are kept for
\* observation; property, line and value are the fields of the code's record.
RECURSIVE MatchAll(_, _, _, _, _)
MatchAll(line, i, pat, form, lineNo) ==
  IF i > Len(line) THEN << >>
  ELSE LET e == MatchAt(line, i, pat)
       IN IF e > 0
          THEN <<[property |-> SubSeq(line, i + 1, e - 1), line |-> lineNo,
                  value |-> SubSeq(line, i, e), index |-> i, form |-> form]>>
               \o MatchAll(line, e + 1, pat, form, lineNo)
          ELSE MatchAll(line, i + 1, pat, form, lineNo)

\* the references of both forms in one line: the brace-form matches, then the call-form matches
LineMatches(line, lineNo) ==
  MatchAll(line, 1, PATTERNS.anyProperty, "brace", lineNo)
    \o MatchAll(line, 1, PATTERNS.anyDataWeaveProperty, "call", lineNo)

\* propName.startsWith('secure::')
IsSecured(m) == Head(m.property) = "secure::"

\* findUnsecuredProperties on a lexeme sequence
findUnsecuredInText(content, sensitivePatterns) ==
  LET lines == Split(content)
      RECURSIVE Scan(_)
      Scan(n) ==
        IF n > Len(lines) THEN << >>
        ELSE SelectSeq(LineMatches(lines[n], n),
                       LAMBDA m : ~IsSecured(m) /\ RegExpTest(sensitivePatterns, m.property))
             \o Scan(n + 1)
  IN Scan(1)

\* the suggestion enforceSecure attaches to a violation
Suggestion(v) ==
  IF \E i \in 1..Len(v.value) : v.value[i] = "Mule::p('"
  THEN <<"Mule::p('", "secure::">> \o v.property \o <<"')">>
  ELSE <<"${", "secure::">> \o v.property \o <<"}">>

\* the violations enforceSecure reports for one file's content
enforceSecureText(content, sensitivePatterns) ==
  LET fileViolations == findUnsecuredInText(content, sensitivePatterns)
  IN [i \in 1..Len(fileViolations) |->
        [line |-> fileViolations[i].line, value |-> fileViolations[i].value,
         suggestion |-> Suggestion(fileViolations[i]),
         property |-> fileViolations[i].property, form |-> fileViolations[i].form]]

InitText ==
  /\ pc = "idle"
  /\ opts = NoOpts
  /\ pom = Pom(TRUE, ArtifactId)
  /\ pomBak = NoPom
  /\ muleDirExists = TRUE
  /\ tree = NoFiles
  /\ bakExists = FALSE
  /\ bak = NoFiles
  /\ target = EmptyTarget
  /\ loc = NoLoc
  /\ res = "none"
  /\ h = NoHist
  /\ runs = 0
  /\ rt = NoRt
  /\ \E content \in TextsOf(MaxFrags) :
       aux = [phase |-> "input", content |-> content, once |-> NoStripped, twice |-> NoStripped,
              sensitivePatterns |-> << >>, violations |-> << >>]

\* stripSecureFromContent(content)
TxStrip ==
  /\ aux.phase = "input"
  /\ aux' = [aux EXCEPT !.phase = "stripped", !.once = stripSecureFromText(aux.content)]
  /\ UNCHANGED <<pc, opts, pom, pomBak, muleDirExists, tree, bakExists, bak, target, loc, res, h, runs, rt>>

\* stripSecureFromContent applied to its own result
TxStripAgain ==
  /\ aux.phase = "stripped"
  /\ aux' = [aux EXCEPT !.phase = "restripped", !.twice = stripSecureFromText(aux.once.result)]
  /\ UNCHANGED <<pc, opts, pom, pomBak, muleDirExists, tree, bakExists, bak, target, loc, res, h, runs, rt>>

\* findUnsecuredProperties(content, sensitivePatterns)
TxScan ==
  /\ aux.phase = "input"
  /\ \E sensitivePatterns \in PatternLists :
       aux' = [aux EXCEPT !.phase = "scanned", !.sensitivePatterns = sensitivePatterns,
                          !.violations = findUnsecuredInText(aux.content, sensitivePatterns)]
  /\ UNCHANGED <<pc, opts, pom, pomBak, muleDirExists, tree, bakExists, bak, target, loc, res, h, runs, rt>>

\* enforceSecure on a file holding the content
TxEnforce ==
  /\ aux.phase = "input"
  /\ \E sensitivePatterns \in PatternLists :
       aux' = [aux EXCEPT !.phase = "enforced", !.sensitivePatterns = sensitivePatterns,
                          !.violations = enforceSecureText(aux.content, sensitivePatterns)]
  /\ UNCHANGED <<pc, opts, pom, pomBak, muleDirExists, tree, bakExists, bak, target, loc, res, h, runs, rt>>

NextText ==
  \/ TxStrip
  \/ TxStripAgain
  \/ TxScan
  \/ TxEnforce

SpecText == InitText /\ [][NextText]_vars


\* ------------------------------------------------------- the strip command
\* stripSecure of the API (CLI `strip`, MCP strip_secure) on a single file or
\* on a directory, with or without dryRun.
\* the directory src/main/mule itself, as a target
MuleDir == [dir |-> "", base |-> "", ext |-> ""]
StripTargets == {MuleDir} \cup Paths

\* a strip that writes whatever dryRun says
StripWritesAlways(dryRun, files, t) == StripFiles(files, t)

\* the files after stripSecure got to `files`: with dryRun a change is pushed
\* to `changes` where writeFileSync would have been called
StripWrites(dryRun, files, t) == IF dryRun THEN t ELSE StripFiles(files, t)

NoStripResult == [success |-> FALSE, filesProcessed |-> {}, replacementCount |-> 0, changes |-> {}]

InitStripCmd ==
  /\ pc = "idle"
  /\ opts = NoOpts
  /\ pom = Pom(TRUE, ArtifactId)
  /\ pomBak = NoPom
  /\ muleDirExists \in BOOLEAN
  /\ tree \in (IF muleDirExists THEN RtTrees ELSE {NoFiles})
  /\ bakExists = FALSE
  /\ bak = NoFiles
  /\ target = EmptyTarget
  /\ loc = NoLoc
  /\ res = "none"
  /\ h = NoHist
  /\ runs = 0
  /\ rt = NoRt
  /\ aux = [phase |-> "ready", dryRun |-> FALSE, target |-> MuleDir, pre |-> tree, result |-> NoStripResult]

\* one call: the target must exist; the files are the XML files below a
\* directory or the one file named; a read or write that throws ends the loop
\* and makes the result a failure, the files written before stay written
StripCommand ==
  /\ aux.phase \in {"ready", "ran"}
  /\ \E tg \in StripTargets, dryRun \in BOOLEAN :
       LET exists == IF tg = MuleDir THEN muleDirExists ELSE tree[tg].ex
           files == IF ~exists THEN {}
                    ELSE IF tg = MuleDir THEN getXmlFiles(muleDirExists, tree) ELSE {tg}
       IN \E processed \in SUBSET files :
            /\ tree' = StripWrites(dryRun, processed, tree)
            /\ aux' = [phase |-> "ran", dryRun |-> dryRun, target |-> tg, pre |-> tree,
                       result |-> IF exists /\ processed = files
                                  THEN [success |-> TRUE,
                                        filesProcessed |-> Rewritten(files, tree),
                                        replacementCount |-> SumCounts(files, tree),
                                        changes |-> IF dryRun THEN Rewritten(files, tree) ELSE {}]
                                  ELSE NoStripResult]
  /\ UNCHANGED <<pc, opts, pom, pomBak, muleDirExists, bakExists, bak, target, loc, res, h, runs, rt>>

NextStripCmd == StripCommand

SpecStripCmd == InitStripCmd /\ [][NextStripCmd]_vars


\* ------------------------------------------------- a backup left behind
\* packageProject in a project where an earlier invocation left its backup
\* directory on disk: backupDir is join(cwd, '.mule-build-backup') for every
\* invocation, backupXmlFiles makes it with mkdirSync(recursive) and does not
\* empty it.  The directory holds copies of XML files only.
StaleBackups ==
  {[p \in Paths |-> IF p = GlobalXml THEN g ELSE IF p = FlowXml THEN f ELSE Absent] :
     g \in {Absent, File(CGlobal)}, f \in {Absent, File(CSecured)}}

InitStale ==
  /\ pc = "idle"
  /\ opts = NoOpts
  /\ pom = Pom(TRUE, ArtifactId)
  /\ pomBak = NoPom
  /\ muleDirExists = TRUE
  /\ tree \in InitTrees
  /\ bakExists = TRUE
  /\ bak \in StaleBackups
  /\ target = EmptyTarget
  /\ loc = NoLoc
  /\ res = "none"
  /\ h = NoHist
  /\ runs = 0
  /\ rt = NoRt
  /\ aux = NoAux

SpecStale == InitStale /\ [][Next]_vars

\* ------------------------------------- removeSecurePropertiesConfig alone
\* removeSecurePropertiesConfig(content) applied to any content of opening
\* tags, closing tags, text and references, and then to its own result
InitSpc ==
  /\ pc = "idle"
  /\ opts = NoOpts
  /\ pom = Pom(TRUE, ArtifactId)
  /\ pomBak = NoPom
  /\ muleDirExists = TRUE
  /\ tree = NoFiles
  /\ bakExists = FALSE
  /\ bak = NoFiles
  /\ target = EmptyTarget
  /\ loc = NoLoc
  /\ res = "none"
  /\ h = NoHist
  /\ runs = 0
  /\ rt = NoRt
  /\ \E n \in 0..MaxItems :
       \E content \in [1..n -> {SpcOpen, SpcClose, Txt, Item("brace", 1, TRUE)}] :
         aux = [phase |-> "content", content |-> content, result |-> << >>, again |-> << >>]

RemoveCall ==
  /\ aux.phase \in {"content", "removed"}
  /\ aux' = IF aux.phase = "content"
            THEN [aux EXCEPT !.phase = "removed", !.result = removeSecurePropertiesConfig(aux.content)]
            ELSE [aux EXCEPT !.phase = "again", !.again = removeSecurePropertiesConfig(aux.result)]
  /\ UNCHANGED <<pc, opts, pom, pomBak, muleDirExists, tree, bakExists, bak, target, loc, res, h, runs, rt>>

NextSpc == RemoveCall

SpecSpc == InitSpc /\ [][NextSpc]_vars

\* ------------------------------------------------------------ releaseVersion
\* releaseVersion(options): pre-flight checks, the version bump in pom.xml,
\* packageProject({environment: 'production', version: newVersion}), then the
\* rollback of the bump when the package failed, else commit, tag and push.
NewVersion == "1.0.1"
NoGit == [commits |-> 0, tags |-> 0, pushes |-> 0]

\* setVersion(version): the first <version> element of pom.xml is rewritten;
\* a pom.xml that cannot be read or written makes it return a failure
setVersion(p, v, written) == IF p.ex /\ written THEN [p EXCEPT !.version = v] ELSE p

InitRelease ==
  /\ pc = "idle"
  /\ opts = NoOpts
  /\ pom \in {Pom(TRUE, ArtifactId), Pom(FALSE, << >>)}
  /\ pomBak = NoPom
  /\ muleDirExists \in BOOLEAN
  /\ tree \in (IF muleDirExists THEN InitTrees ELSE {NoFiles})
  /\ bakExists = FALSE
  /\ bak = NoFiles
  /\ target = EmptyTarget
  /\ loc = NoLoc
  /\ res = "none"
  /\ h = NoHist
  /\ runs = 0
  /\ rt = NoRt
  /\ \E tag \in BOOLEAN, push \in BOOLEAN :
       aux = [phase |-> "release", at |-> "start", tag |-> tag, push |-> push,
              currentVersion |-> pom.version, git |-> NoGit, result |-> "none"]

\* releaseVersion up to `await packageProject`: a failed pre-flight check
\* (canBuild, isGitRepo, isWorkingTreeClean) or a failed setVersion returns
\* an error; else pom.xml declares the new version and packageProject is entered
ReleaseStart ==
  /\ aux.phase = "release" /\ aux.at = "start"
  /\ \E preflight \in BOOLEAN, written \in BOOLEAN :
       IF preflight /\ pom.ex /\ written
       THEN /\ pom' = setVersion(pom, NewVersion, written)
            /\ pc' = "precheck"
            /\ opts' = [stripSecure |-> FALSE, environment |-> "production"]
            /\ loc' = NoLoc
            /\ res' = "none"
            /\ h' = [NoHist EXCEPT !.prePom = pom', !.preTree = tree]
            /\ runs' = runs + 1
            /\ aux' = [aux EXCEPT !.at = "packaging"]
       ELSE /\ aux' = [aux EXCEPT !.at = "returned", !.result = "err_preflight"]
            /\ UNCHANGED <<pom, pc, opts, loc, res, h, runs>>
  /\ UNCHANGED <<pomBak, muleDirExists, tree, bakExists, bak, target, rt>>

\* releaseVersion behind `await packageProject`: an exception of
\* packageProject leaves releaseVersion at once; a failure Result is answered
\* by setVersion(currentVersion), whose own Result is not looked at; a success
\* by commit and createTag, a failure of which is returned, and by
\* pushWithTags, a failure of which is only logged
ReleaseFinish ==
  /\ aux.phase = "release" /\ aux.at = "packaging" /\ pc = "done"
  /\ IF res = "thrown"
     THEN /\ aux' = [aux EXCEPT !.at = "returned", !.result = "thrown"]
          /\ pom' = pom
     ELSE IF res # "ok"
     THEN /\ \E written \in BOOLEAN : pom' = setVersion(pom, aux.currentVersion, written)
          /\ aux' = [aux EXCEPT !.at = "returned", !.result = "err_package"]
     ELSE /\ pom' = pom
          /\ \E committed \in BOOLEAN, tagged \in BOOLEAN, pushed \in BOOLEAN :
               aux' = IF ~committed
                      THEN [aux EXCEPT !.at = "returned", !.result = "err_commit"]
                      ELSE IF aux.tag /\ ~tagged
                      THEN [aux EXCEPT !.at = "returned", !.result = "err_tag", !.git.commits = 1]
                      ELSE [aux EXCEPT !.at = "returned", !.result = "ok",
                                       !.git = [commits |-> 1,
                                                tags |-> IF aux.tag THEN 1 ELSE 0,
                                                pushes |-> IF aux.push /\ pushed THEN 1 ELSE 0]]
  /\ UNCHANGED <<pc, opts, pomBak, muleDirExists, tree, bakExists, bak, target, loc, res, h, runs, rt>>

NextRelease ==
  \/ ReleaseStart
  \/ Precheck
  \/ LoadConfig
  \/ BackupPom
  \/ Spawn
  \/ Clean
  \/ Enforce
  \/ SetName
  \/ Build
  \/ Locate
  \/ Copy
  \/ Manifest
  \/ FinallyPom
  \/ ReleaseFinish

SpecRelease == InitRelease /\ [][NextRelease]_vars

\* ---------------------------------------------------------------- loadConfig
\* loadConfig(cwd) called several times in one process, for two project
\* directories.  DEFAULT_CONFIG is one object of the module, its project
\* field one object; a name is a string, "" when undefined.
ProjectDirs == {"dirA", "dirB"}
NoYaml == [ex |-> FALSE, parses |-> FALSE, name |-> ""]

\* what a project directory may hold: mule-build.yaml (absent, unparsable,
\* without or with a project name) and the name getProjectName reads from
\* pom.xml ("" when it cannot be read)
ProjectFiles(d) ==
  [yaml : {NoYaml, [ex |-> TRUE, parses |-> FALSE, name |-> ""],
           [ex |-> TRUE, parses |-> TRUE, name |-> ""],
           [ex |-> TRUE, parses |-> TRUE, name |-> "yaml-" \o d]},
   pomName : {"", "pom-" \o d}]

\* loadConfig(cwd): config = { ...DEFAULT_CONFIG } shares DEFAULT_CONFIG.project;
\* mergeConfig, run when mule-build.yaml exists, makes a new project object
\* from the default's fields and the file's; a missing name is then read from
\* pom.xml and assigned to config.project.name, which without a
\* mule-build.yaml is DEFAULT_CONFIG.project.name
loadConfig(defaultName, files) ==
  IF files.yaml.ex
  THEN IF ~files.yaml.parses
       THEN [success |-> FALSE, name |-> "", defaultName |-> defaultName]
       ELSE LET merged == IF files.yaml.name # "" THEN files.yaml.name ELSE defaultName
            IN [success |-> TRUE, name |-> IF merged # "" THEN merged ELSE files.pomName,
                defaultName |-> defaultName]
  ELSE LET name == IF defaultName # "" THEN defaultName ELSE files.pomName
       IN [success |-> TRUE, name |-> name, defaultName |-> name]

InitConfig ==
  /\ pc = "idle"
  /\ opts = NoOpts
  /\ pom = Pom(TRUE, ArtifactId)
  /\ pomBak = NoPom
  /\ muleDirExists = TRUE
  /\ tree = NoFiles
  /\ bakExists = FALSE
  /\ bak = NoFiles
  /\ target = EmptyTarget
  /\ loc = NoLoc
  /\ res = "none"
  /\ h = NoHist
  /\ runs = 0
  /\ rt = NoRt
  /\ \E fa \in ProjectFiles("dirA"), fb \in ProjectFiles("dirB") :
       aux = [phase |-> "config", files |-> [d \in ProjectDirs |-> IF d = "dirA" THEN fa ELSE fb],
              defaultName |-> "", calls |-> 0, cwd |-> "dirA",
              result |-> [success |-> FALSE, name |-> ""]]

LoadConfigCall ==
  /\ aux.phase = "config"
  /\ aux.calls < MaxCalls
  /\ \E cwd \in ProjectDirs :
       LET r == loadConfig(aux.defaultName, aux.files[cwd])
       IN aux' = [aux EXCEPT !.defaultName = r.defaultName, !.calls = @ + 1, !.cwd = cwd,
                             !.result = [success |-> r.success, name |-> r.name]]
  /\ UNCHANGED <<pc, opts, pom, pomBak, muleDirExists, tree, bakExists, bak, target, loc, res, h, runs, rt>>

NextConfig == LoadConfigCall

SpecConfig == InitConfig /\ [][NextConfig]_vars

\* ------------------------------------------------------------ MCP tool calls
\* The tool handlers of one MCP server process.  A handler runs up to its
\* first await when the request arrives and goes on when the awaited call
\* has ended; handlers of other requests run in between.  release_version
\* changes the working directory of the process around releaseVersion, which
\* is given no cwd and reads process.cwd() when it is entered; the other
\* tools work in `cwd ?? process.cwd()` and leave the working directory alone.
ServerCwd == "server"
ToolDirs == {"dirA", "dirB"}
NoCall == [at |-> "new", tool |-> "none", cwd |-> "", originalCwd |-> "", workDir |-> "", others |-> {}]

InitMcp ==
  /\ pc = "idle"
  /\ opts = NoOpts
  /\ pom = Pom(TRUE, ArtifactId)
  /\ pomBak = NoPom
  /\ muleDirExists = TRUE
  /\ tree = NoFiles
  /\ bakExists = FALSE
  /\ bak = NoFiles
  /\ target = EmptyTarget
  /\ loc = NoLoc
  /\ res = "none"
  /\ h = NoHist
  /\ runs = 0
  /\ rt = NoRt
  /\ aux = [phase |-> "mcp", processCwd |-> ServerCwd, calls |-> [c \in 1..MaxToolCalls |-> NoCall]]

\* a request arrives: the handler up to its await.  cwd is "" when the
\* request names none; process.chdir(cwd) throws when the directory is
\* missing, and the handler then answers with an error at once
McpBegin(c) ==
  /\ aux.phase = "mcp"
  /\ aux.calls[c].at = "new"
  /\ \E tool \in {"release_version", "other"}, cwd \in ToolDirs \cup {""}, entered \in BOOLEAN :
       LET originalCwd == aux.processCwd
           changes == tool = "release_version" /\ cwd # ""
           others == {aux.calls[d].cwd : d \in {e \in 1..MaxToolCalls : aux.calls[e].at = "awaiting"}} \ {""}
       IN IF changes /\ ~entered
          THEN aux' = [aux EXCEPT !.calls[c] = [at |-> "done", tool |-> tool, cwd |-> cwd,
                                                originalCwd |-> originalCwd, workDir |-> "", others |-> others]]
          ELSE LET processCwd == IF changes THEN cwd ELSE aux.processCwd
                   workDir == IF tool = "release_version" \/ cwd = "" THEN processCwd ELSE cwd
               IN aux' = [aux EXCEPT !.processCwd = processCwd,
                                     !.calls[c] = [at |-> "awaiting", tool |-> tool, cwd |-> cwd,
                                                   originalCwd |-> originalCwd, workDir |-> workDir,
                                                   others |-> others]]
  /\ UNCHANGED <<pc, opts, pom, pomBak, muleDirExists, tree, bakExists, bak, target, loc, res, h, runs, rt>>

\* the awaited call has ended: release_version's finally block goes back to
\* the directory it found when it began, when it was given a cwd
McpEnd(c) ==
  /\ aux.phase = "mcp"
  /\ aux.calls[c].at = "awaiting"
  /\ aux' = [aux EXCEPT !.calls[c].at = "done",
                        !.processCwd = IF aux.calls[c].tool = "release_version" /\ aux.calls[c].cwd # ""
                                       THEN aux.calls[c].originalCwd ELSE @]
  /\ UNCHANGED <<pc, opts, pom, pomBak, muleDirExists, tree, bakExists, bak, target, loc, res, h, runs, rt>>

NextMcp == \E c \in 1..MaxToolCalls : McpBegin(c) \/ McpEnd(c)

SpecMcp == InitMcp /\ [][NextMcp]_vars

\* ------------------------------------------------------------------ claims
Ended == pc = "done" /\ res # "rejected"
HasEntry(changes, what) == \E i \in 1..Len(changes) : changes[i].what = what

\* C1: when the pom.xml snapshot succeeded and no restore copy failed, a call
\* that has ended, on whatever path, leaves pom.xml and every snapshotted XML
\* file of the config tree with the content they had when the call began.
C1_RestoredOnEveryExit ==
  (Ended /\ h.pomSnapOk /\ ~h.restoreFailed) =>
    /\ pom = h.prePom
    /\ \A p \in h.snap : tree[p] = h.preTree[p]

\* C1 witness: a strip-mode call that rewrote XML files and renamed the
\* package in pom.xml ended with a build failure, all restores having succeeded.
C1_Witness ==
  /\ Ended /\ h.pomSnapOk /\ ~h.restoreFailed
  /\ res = "err_build"
  /\ h.pomEdited
  /\ h.snap # {}
  /\ \E i \in 1..Len(loc.configChanges) :
       loc.configChanges[i].what = "stripped" /\ loc.configChanges[i].n > 0

\* C2: in production mode, once the scan has reported a violation, the build
\* is never invoked, no artifact is copied, no manifest is written, and the
\* call ends by returning the security-validation error.
C2_ViolationReturnsSecurityError ==
  h.enforce = "violations" =>
    /\ h.buildExit = "none"
    /\ ~h.copied
    /\ ~h.manifestWritten
    /\ (pc = "done" => res = "err_security")

\* The gate of C2 alone: after a reported violation the build is not invoked
\* and nothing is written to target/.
EnforceGateHolds ==
  h.enforce = "violations" => (h.buildExit = "none" /\ ~h.copied /\ ~h.manifestWritten)

\* C3: in production mode the build is invoked only after a scan that
\* succeeded and found no violation; otherwise the call does not succeed and
\* the change list never says that the sensitive properties were validated.
C3_BuildOnlyAfterCleanScan ==
  opts.environment = "production" =>
    /\ (h.buildExit # "none" => h.enforce = "valid")
    /\ (h.enforce \in {"violations", "error"} =>
          /\ ~HasEntry(loc.configChanges, "validated")
          /\ ~(target.manifest.ex /\ h.manifestWritten)
          /\ (pc = "done" => res # "ok"))

\* C4: a call that got past the backup of pom.xml and has ended leaves neither
\* pom.xml.bak nor the config-tree backup directory on disk.
C4_NoBackupLeftBehind ==
  (Ended /\ h.pastBackupPom) => (~pomBak.ex /\ ~bakExists)

\* C5: pom.xml is edited by setName only in an invocation whose snapshot of
\* pom.xml succeeded.
C5_EditOnlyAfterSnapshot == h.pomEdited => h.pomSnapOk

\* C6: without stripSecure no file of the config tree is ever written, and no
\* config-tree snapshot is taken or restored.
C6_NoStripNoTreeWrite ==
  (runs > 0 /\ ~opts.stripSecure) =>
    /\ ~h.treeWritten
    /\ tree = h.preTree
    /\ ~h.bakTouched
    /\ h.snap = {}
    /\ ~loc.xmlFilesBackedUp

\* C6 witness: a production call on a tree holding a secure-marked reference
\* (which a strip would rewrite) ran to a successful end.
C6_Witness ==
  /\ pc = "done" /\ res = "ok"
  /\ ~opts.stripSecure /\ opts.environment = "production"
  /\ \E p \in getXmlFiles(muleDirExists, tree) : stripSecureFromContent(tree[p].c).count > 0

\* C7 as stated: after snapshot, mutations and a completed restore the whole
\* tree equals the pre-snapshot tree.
C7_RoundTripWholeTree == rt.phase = "restored" => tree = rt.pre

\* C7 amended: after snapshot, mutations and a completed restore every XML
\* file that was in the tree at snapshot time has its pre-snapshot content.
C7_RoundTripXmlFiles ==
  rt.phase = "restored" =>
    \A p \in getXmlFiles(muleDirExists, rt.pre) : tree[p] = rt.pre[p]

\* C7 witness: a completed restore brought back an XML file that was deleted
\* after the snapshot and another one whose content had been edited.
C7_Witness ==
  /\ rt.phase = "restored"
  /\ \E p, q \in getXmlFiles(muleDirExists, rt.pre) :
       /\ ~rt.mid[p].ex /\ tree[p] = rt.pre[p]
       /\ rt.mid[q].ex /\ rt.mid[q] # rt.pre[q] /\ tree[q] = rt.pre[q]

\* C8: no call of packageProject ends with a thrown exception.
C8_NoThrow == res # "thrown"

\* C9: LocateArtifact is reached only after the build process exited with
\* code 0, and a call whose build process ended otherwise returns a failure.
C9_ZeroExitOnly ==
  /\ h.locateInvoked => h.buildExit = "zero"
  /\ (pc = "done" /\ h.buildExit \in {"nonzero", "spawnfail", "signal"}) => IsErr(res)

\* C10: no invocation performs both the strip transform and the enforce scan.
C10_StripXorEnforce == ~(h.stripRan /\ h.enforce # "none")

\* C11: any two calls that have entered, two concurrent ones in the same
\* project directory included, use distinct config-tree backup locations, and
\* no call reads, overwrites or deletes the snapshot of the other.
C11_DistinctBackupLocations ==
  aux.phase = "concurrent" =>
    \A i, j \in Invocations :
      (i # j /\ aux.at[i] # "start" /\ aux.at[j] # "start") =>
        /\ aux.dir[i] # aux.dir[j]
        /\ aux.touched[i] = {}

\* What the shared location costs: both calls have ended, neither snapshot nor
\* restore failed, and yet an XML file of the tree differs from what it was
\* before the two calls.
C11_TreeLeftStripped ==
  /\ aux.phase = "concurrent"
  /\ \A i \in Invocations : aux.at[i] = "ended" /\ aux.xmlFilesBackedUp[i]
  /\ ~bakExists
  /\ \E p \in getXmlFiles(muleDirExists, aux.pre) : tree[p] # aux.pre[p]

\* C12: stripSecureFromContent applied to its own output performs no
\* replacement and returns that output unchanged: no secure-marked brace-form
\* or call-form reference is left after one pass.
C12_StripIdempotent ==
  aux.phase = "restripped" =>
    /\ aux.twice.count = 0
    /\ aux.twice.result = aux.once.result
    /\ \A i \in 1..Len(aux.once.result) :
         /\ MatchAt(aux.once.result, i, PATTERNS.securePropertyBraces) = 0
         /\ MatchAt(aux.once.result, i, PATTERNS.securePropertyDataWeave) = 0

\* the lexemes of s at the positions outside P, in their order
Without(s, P) ==
  LET RECURSIVE Keep(_)
      Keep(i) == IF i > Len(s) THEN << >>
                 ELSE (IF i \in P THEN << >> ELSE <<s[i]>>) \o Keep(i + 1)
  IN Keep(1)

\* the positions of s holding the marker right behind the opening text of a reference
MarkerPositions(s) ==
  {i \in 2..Len(s) : s[i] = "secure::" /\ s[i - 1] \in {"${", "Mule::p('"}}

\* whether s holds a secure-marked brace-form or call-form reference
HasSecureRef(s) ==
  \E i \in 1..Len(s) :
    \/ MatchAt(s, i, PATTERNS.securePropertyBraces) > 0
    \/ MatchAt(s, i, PATTERNS.securePropertyDataWeave) > 0

ContainsIgnoringCase(propName, pattern) ==
  LET name == Spell(propName)
  IN \E start \in 0..(Len(name) - Len(pattern)) :
       \A k \in 1..Len(pattern) : Lower(pattern[k]) = Lower(name[start + k])

\* the references of one content a scan has to report: those of either form,
\* in any line, that do not carry the marker and whose name contains a listed
\* pattern; each is named by line, position and form
MustReport(content, sensitivePatterns) ==
  LET lines == Split(content)
      Refs(n) == {LineMatches(lines[n], n)[i] : i \in 1..Len(LineMatches(lines[n], n))}
      Sensitive(m) == \E k \in 1..Len(sensitivePatterns) : ContainsIgnoringCase(m.property, sensitivePatterns[k])
  IN UNION {{[line |-> n, index |-> m.index, form |-> m.form] :
               m \in {r \in Refs(n) : ~IsSecured(r) /\ Sensitive(r)}} :
            n \in 1..Len(lines)}

Reported(violations) ==
  {[line |-> violations[i].line, index |-> violations[i].index, form |-> violations[i].form] :
     i \in 1..Len(violations)}

\* C14: for every content and every pattern list, findUnsecuredProperties
\* reports a reference if and only if it does not carry the marker and its
\* name contains a listed pattern as a substring, letter case ignored; it
\* reports each such reference once and no secured one.
C14_ReportsExactlySensitive ==
  aux.phase = "scanned" =>
    /\ Reported(aux.violations) = MustReport(aux.content, aux.sensitivePatterns)
    /\ Len(aux.violations) = Cardinality(MustReport(aux.content, aux.sensitivePatterns))

\* C14 restricted to the default pattern list.
C14_DefaultListHolds ==
  (aux.phase = "scanned" /\ aux.sensitivePatterns = DEFAULT_SENSITIVE_PATTERNS) =>
    /\ Reported(aux.violations) = MustReport(aux.content, aux.sensitivePatterns)
    /\ Len(aux.violations) = Cardinality(MustReport(aux.content, aux.sensitivePatterns))

\* C15: the violations of one content are ordered by line and, within a line,
\* by the position of the matched reference, whatever its form.
C15_OrderedByLineAndPosition ==
  aux.phase = "scanned" =>
    \A i, j \in 1..Len(aux.violations) :
      i < j =>
        \/ aux.violations[i].line < aux.violations[j].line
        \/ /\ aux.violations[i].line = aux.violations[j].line
           /\ aux.violations[i].index < aux.violations[j].index

\* C16: every violation enforceSecure reports carries a suggestion in the form
\* of the matched reference: ${secure::N} for a brace-form match ${N},
\* Mule::p('secure::N') for a call-form match Mule::p('N').
C16_SuggestionKeepsForm ==
  aux.phase = "enforced" =>
    \A i \in 1..Len(aux.violations) :
      LET v == aux.violations[i]
      IN /\ v.form = "brace" => v.suggestion = <<"${", "secure::">> \o v.property \o <<"}">>
         /\ v.form = "call" => v.suggestion = <<"Mule::p('", "secure::">> \o v.property \o <<"')">>

\* C17: a strip run with dryRun changes no file, for a single-file target and
\* for a directory target, however many secure-marked references it found.
C17_DryRunWritesNothing ==
  (aux.phase = "ran" /\ aux.dryRun) =>
    /\ tree = aux.pre
    /\ ~bakExists /\ bak = NoFiles /\ pom = Pom(TRUE, ArtifactId) /\ ~pomBak.ex /\ target = EmptyTarget

\* C17 witness: a dry run over the directory found replacements in two files
\* and reported them as changes.
C17_Witness ==
  /\ aux.phase = "ran" /\ aux.dryRun /\ aux.target = MuleDir
  /\ aux.result.success
  /\ Cardinality(aux.result.changes) = 2
  /\ aux.result.replacementCount >= 2

\* a dry run on a single file that is not an XML file found a replacement
C17_WitnessSingleFile ==
  /\ aux.phase = "ran" /\ aux.dryRun /\ aux.target = NotesTxt
  /\ aux.result.success
  /\ aux.result.replacementCount > 0

\* C18: a build started by the run command has the strip transform applied
\* to the config tree before the external build is invoked, so the artifact
\* that is deployed was built from stripped files.
C18_RunStripsBeforeBuild ==
  /\ (h.viaRun /\ h.buildExit # "none") => h.stripRan
  /\ (h.viaRun /\ res = "deployed") => h.stripRan

\* C19: when Maven is not installed or pom.xml is absent the call returns the
\* pre-flight failure, and it has made no backup, changed no file and invoked
\* neither the clean nor the build step.
C19_PrecheckFailureTouchesNothing ==
  (runs > 0 /\ res # "rejected" /\ pc # "precheck" /\ (h.mavenMissing \/ ~h.prePom.ex)) =>
    /\ pc = "done" /\ res = "err_precheck"
    /\ ~h.pastBackupPom /\ ~h.pomSnapOk /\ ~h.bakTouched /\ h.snap = {}
    /\ pom = h.prePom /\ tree = h.preTree
    /\ ~h.pomEdited /\ ~h.treeWritten
    /\ h.clean = "none" /\ h.buildExit = "none"
    /\ ~h.copied /\ ~h.manifestWritten

\* C19 witness: a call in a project that has a config tree but no pom.xml
\* has returned, Maven being installed.
C19_Witness ==
  /\ pc = "done" /\ res = "err_precheck"
  /\ ~h.prePom.ex /\ ~h.mavenMissing
  /\ opts.stripSecure
  /\ getXmlFiles(muleDirExists, tree) # {}

\* C20: a failed clean step does not end the call: the transforms the mode
\* asks for and the external build still run, unless a later step fails
\* first, and the call succeeds when the later steps succeed.
C20_FailedCleanGoesOn ==
  h.clean = "failed" =>
    /\ pc # "clean"
    /\ (pc = "done" =>
          /\ ShouldStrip(opts) => h.stripRan
          /\ h.buildExit # "none" \/ res \in {"err_security", "thrown"}
          /\ (h.manifestWritten /\ ~h.restoreFailed) => res \in {"ok", "deployed", "err_deploy"})

\* C20 witness: a strip-mode call whose clean step failed ran the strip and
\* the build and returned ok.
C20_Witness ==
  /\ pc = "done" /\ res = "ok"
  /\ h.clean = "failed"
  /\ h.stripRan /\ h.buildExit = "zero" /\ h.manifestWritten

\* C21: once the artifact was copied, target/ holds exactly one renamed copy,
\* named <projectName>[-<environment>][-local]-<version> with the timestamp of
\* this invocation, the local segment being there exactly when stripSecure was
\* requested without an environment; the located artifact is still in place
C21_FinalJarNamed ==
  h.copied =>
    LET local == opts.stripSecure /\ opts.environment = "none"
        expected == getProjectName(h.prePom)
                      \o (IF opts.environment = "none" THEN << >> ELSE <<opts.environment>>)
                      \o (IF local THEN <<"local">> ELSE << >>)
                      \o <<h.prePom.version>>
    IN  /\ target.finals = {[name |-> expected, timestamp |-> runs]}
        /\ \A f \in target.finals :
             LET behind == Len(getProjectName(h.prePom)) + (IF opts.environment = "none" THEN 0 ELSE 1)
             IN (f.name[behind + 1] = "local" /\ Len(f.name) = behind + 2)
                  <=> local
        /\ target.jar

\* a successful strip build without an environment, its copy in place
C21_Witness ==
  /\ pc = "done" /\ res = "ok" /\ h.copied
  /\ opts.stripSecure /\ opts.environment = "none"
  /\ target.jar /\ target.finals # {}

\* C22: when an invocation has run its restore to the end, the files outside
\* its own snapshot are as they were when it began: nothing of a backup left
\* by an earlier invocation gets into the tree
C22_RestoresOnlyOwnSnapshot ==
  (pc = "done" /\ loc.xmlFilesBackedUp /\ ~h.restoreFailed) =>
    \A p \in Paths \ h.snap : tree[p] = h.preTree[p]

\* C23: a manifest is written only after the build succeeded and the artifact
\* was located and copied, its change list is the list accumulated by the
\* steps of the invocation, in their order, and an invocation that ends in a
\* failure has written none
C23_ManifestOnlyOnSuccess ==
  /\ h.manifestWritten =>
       /\ h.buildExit = "zero" /\ h.locateInvoked /\ h.copied
       /\ target.manifest.ex
       /\ target.manifest.changes = loc.configChanges
       /\ \A i, j \in 1..Len(target.manifest.changes) :
            LET Order(e) == CASE e.what = "stripped" -> 1
                              [] e.what = "replacements" -> 2
                              [] e.what = "removedSpc" -> 3
                              [] e.what = "validated" -> 4
                              [] e.what = "setName" -> 5
            IN i < j => Order(target.manifest.changes[i]) < Order(target.manifest.changes[j])
  /\ (pc = "done" /\ (IsErr(res) \/ res = "thrown")) => ~h.manifestWritten

\* the positions of the first block of c: from the first opening tag that has
\* a closing tag behind it to the first closing tag behind it
FirstBlock(c) ==
  LET opens == {o \in 1..Len(c) : c[o].k = "spcOpen" /\ \E j \in (o+1)..Len(c) : c[j].k = "spcClose"}
  IN IF opens = {} THEN {}
     ELSE LET o == CHOOSE x \in opens : \A y \in opens : x <= y
              e == CHOOSE j \in (o+1)..Len(c) :
                     c[j].k = "spcClose" /\ \A m \in (o+1)..(j-1) : c[m].k # "spcClose"
          IN o..e

\* the positions of c inside any block: behind (or at) an opening tag with no
\* closing tag in between, and before (or at) a closing tag
InBlocks(c) ==
  {k \in 1..Len(c) :
     \E o \in 1..k :
       /\ c[o].k = "spcOpen"
       /\ \A m \in (o+1)..(k-1) : c[m].k # "spcClose"
       /\ \E j \in k..Len(c) : j > o /\ c[j].k = "spcClose"}

C25_SnapshotWritesBackupOnly ==
  [][(rt.phase \in {"idle", "restored", "failed"} /\ rt'.phase \in {"idle", "snapshotted"} /\ rt'.left = rt.left)
       => (tree' = tree /\ pom' = pom /\ muleDirExists' = muleDirExists)]_vars

\* a snapshot that failed after it copied one of two XML files
C25_Witness ==
  /\ rt.phase = "idle"
  /\ bakExists
  /\ \E p, q \in getXmlFiles(muleDirExists, tree) : bak[p].ex /\ ~bak[q].ex
  /\ rt.left = MaxMutations

\* C26: when releaseVersion has returned after its production package failed,
\* pom.xml declares the version it declared before the release, and nothing
\* was committed, tagged or pushed
C26_FailedReleaseRolledBack ==
  (aux.phase = "release" /\ aux.at = "returned" /\ aux.result \in {"err_package", "thrown"}) =>
    /\ pom.version = aux.currentVersion
    /\ aux.git = NoGit

\* the place of a position of packageProject in the order of its steps
StepRank(p) ==
  CASE p = "idle" -> 0
    [] p = "precheck" -> 1
    [] p = "loadConfig" -> 2
    [] p = "backupPom" -> 3
    [] p = "backupXml" -> 4
    [] p = "clean" -> 5
    [] p = "cleaning" -> 6
    [] p = "strip" -> 7
    [] p = "removeSpc" -> 8
    [] p = "enforce" -> 9
    [] p = "setName" -> 10
    [] p = "build" -> 11
    [] p = "building" -> 12
    [] p = "locate" -> 13
    [] p = "copy" -> 14
    [] p = "manifest" -> 15
    [] p = "finallyPom" -> 16
    [] p = "finallyXml" -> 17
    [] p = "done" -> 18

\* C27: at most one spawned process (clean or build) runs at any time, a
\* process runs only while packageProject awaits it, so every other step
\* starts after it ended, and within one invocation the steps are taken in
\* their order, none of them twice
C27_StepsSequential ==
  /\ [](/\ Cardinality(h.procs) <= 1
        /\ "clean" \in h.procs => pc = "cleaning"
        /\ "build" \in h.procs => pc = "building")
  /\ [][pc' # pc => \/ StepRank(pc') > StepRank(pc)
                    \/ (pc = "done" /\ pc' = "precheck" /\ runs' = runs + 1)]_vars

\* the build process is running, the clean process having ended before
C27_Witness ==
  /\ pc = "building"
  /\ h.procs = {"build"}
  /\ h.clean = "ok"
  /\ h.stripRan

\* C28: in strip mode the build is invoked only when the strip pass returned
\* success (the pass then left its entries in the change list), and a call
\* whose strip pass failed ends in a failure
C28_BuildOnlyAfterStripSuccess ==
  (opts.stripSecure /\ h.stripRan /\ ~HasEntry(loc.configChanges, "stripped")) =>
    /\ pc \notin {"building", "locate", "copy", "manifest"}
    /\ h.buildExit = "none"
    /\ pc = "done" => (IsErr(res) \/ res = "thrown")

\* C29: the name a successful loadConfig(cwd) reports is the project name of
\* the mule-build.yaml in cwd, else the name read from the pom.xml in cwd,
\* whatever calls came before, and the shared default configuration keeps its
\* undefined project name
C29_ResultDependsOnCwdOnly ==
  (aux.phase = "config" /\ aux.calls > 0) =>
    /\ aux.defaultName = ""
    /\ aux.result.success =>
         LET files == aux.files[aux.cwd]
         IN aux.result.name = IF files.yaml.ex /\ files.yaml.name # "" THEN files.yaml.name
                              ELSE files.pomName

====
